---- MODULE Spec2Model ----
(***************************************************************************)
(* Model of src/app.py (Hamburger Schulbau-Monitor): the memoized address  *)
(* geocoder, the page run of the Streamlit script (geocoding, weather,     *)
(* document search) and the document helpers, plus the multi-strategy      *)
(* geo-feature locator of section 4.2 of the specification.                *)
(*                                                                         *)
(* Strings whose content the code inspects are sequences of one-character  *)
(* strings. Floating point degrees are fixed point numbers in thousandths  *)
(* of a degree (53.550 is 53550).                                          *)
(***************************************************************************)
EXTENDS Integers, Sequences, FiniteSets, TLC

VARIABLES
    cache,      \* st.cache_data store of get_coordinates: address -> entry
    lastCall,   \* the most recent get_coordinates call and what it did
    log,        \* get_coordinates calls since the cache was last cleared
    pc,         \* position of the page run in the script
    schule,     \* schule_obj, the school selected in the sidebar
    coords,     \* coords of the main area
    warned,     \* whether st.warning("Adresse nicht gefunden ...") was shown
    weather,    \* what the weather column rendered
    scenario,   \* index of the document scenario being rendered
    table,      \* what the expander of the last scenario rendered
    docInput,   \* the results list handed to extract_docs
    searchOut,  \* outcome of the last query_transparenzportal call
    extractOut, \* outcome of the last extract_docs call
    ffFixture,  \* findFeatures: the upstream's answer per strategy
    ffIdx,      \* findFeatures: index of the next strategy to attempt
    ffAttempted,\* findFeatures: indices of the strategies attempted
    ffResult    \* findFeatures: the outcome

geoVars  == <<cache, lastCall, log>>
pageVars == <<pc, schule, coords, warned, weather, scenario, table>>
docVars  == <<docInput, searchOut, extractOut>>
ffVars   == <<ffFixture, ffIdx, ffAttempted, ffResult>>
vars     == <<cache, lastCall, log, pc, schule, coords, warned, weather,
              scenario, table, docInput, searchOut, extractOut,
              ffFixture, ffIdx, ffAttempted, ffResult>>

-----------------------------------------------------------------------------
(* Bounds of the model.                                                    *)

\* get_coordinates calls recorded between two cache clears
MaxCalls == 3

\* resources attached to one document
MaxResources == 2

-----------------------------------------------------------------------------
(* Python helpers.                                                         *)

DigitChars == {"0", "1", "2", "3", "4", "5", "6", "7", "8", "9"}

Digit(c) ==
    CASE c = "0" -> 0 [] c = "1" -> 1 [] c = "2" -> 2 [] c = "3" -> 3
      [] c = "4" -> 4 [] c = "5" -> 5 [] c = "6" -> 6 [] c = "7" -> 7
      [] c = "8" -> 8 [] c = "9" -> 9

RECURSIVE DigitsVal(_)
DigitsVal(s) ==
    IF s = <<>> THEN 0
    ELSE DigitsVal(SubSeq(s, 1, Len(s) - 1)) * 10 + Digit(s[Len(s)])

AllDigits(s) == \A i \in 1..Len(s) : s[i] \in DigitChars

\* float(s) for decimal literals [-]digits[.digits] with at most three
\* decimals: [ok |-> FALSE] stands for the ValueError float raises.
ParseFloat(s) ==
    LET neg  == Len(s) > 0 /\ s[1] = "-"
        body == IF neg THEN SubSeq(s, 2, Len(s)) ELSE s
        dots == {i \in 1..Len(body) : body[i] = "."}
        dot  == IF dots = {} THEN Len(body) + 1
                ELSE CHOOSE i \in dots : \A j \in dots : i <= j
        int  == SubSeq(body, 1, dot - 1)
        frac == SubSeq(body, dot + 1, Len(body))
        ok   == /\ Cardinality(dots) <= 1
                /\ AllDigits(int) /\ AllDigits(frac)
                /\ Len(int) + Len(frac) >= 1
                /\ Len(frac) <= 3
        pad  == CASE Len(frac) = 0 -> 1000 [] Len(frac) = 1 -> 100
                  [] Len(frac) = 2 -> 10 [] OTHER -> 1
        mag  == DigitsVal(int) * 1000 + DigitsVal(frac) * pad
    IN  IF ok THEN [ok |-> TRUE, val |-> IF neg THEN 0 - mag ELSE mag]
        ELSE [ok |-> FALSE, val |-> 0]

-----------------------------------------------------------------------------
(* The school table and the addresses.                                     *)

\* SCHUL_DATEN: one school per (Bezirk, Stadtteil); an address is a string,
\* kept here as a sequence of chunks (the empty string is <<>>).
SCHUL_DATEN == {
    [bezirk |-> "Altona", stadtteil |-> "Othmarschen",
     name |-> "Gymnasium Hochrad", id |-> "5887",
     address |-> <<"Hochrad 2, 22605 Hamburg">>],
    [bezirk |-> "Bergedorf", stadtteil |-> "Kirchwerder",
     name |-> "Schule Zollenspieker", id |-> "5648",
     address |-> <<"Kirchwerder Landweg 558, 21037 Hamburg">>],
    [bezirk |-> "Mitte", stadtteil |-> "Billstedt",
     name |-> "Grundschule Mümmelmannsberg", id |-> "5058",
     address |-> <<"Mümmelmannsberg 52, 22115 Hamburg">>] }

\* the selectboxes start on their first option
DefaultSchule == CHOOSE s \in SCHUL_DATEN : s.id = "5887"

SchoolAddresses == {s.address : s \in SCHUL_DATEN}

\* inputs of get_coordinates called on its own: the empty string, two
\* whitespace-only strings and a real address
TestAddresses ==
    {<<>>, <<" ">>, <<" ", "\t">>, <<"Hochrad 2, 22605 Hamburg">>}

Addresses == SchoolAddresses \cup TestAddresses

WhitespaceChars == {" ", "\t"}

\* empty or whitespace only
IsBlank(a) == \A i \in 1..Len(a) : a[i] \in WhitespaceChars

-----------------------------------------------------------------------------
(* The geocoding service (Nominatim) as seen by requests.get.              *)

LatStrings == { <<"5","3",".","5","5">>, <<"-","9","0">>, <<"9","5">>, <<"x">> }
LonStrings == { <<"9",".","9","9","2">>, <<"-","1","2","0",".","5">>, <<>> }

\* one element of the JSON array; a missing key has no value
GeoElems ==
    {[keys |-> {"lat", "lon"}, lat |-> la, lon |-> lo] :
        la \in LatStrings, lo \in LonStrings}
    \cup {[keys |-> {"lon"}, lat |-> <<>>, lon |-> lo] : lo \in LonStrings}

SecondElem == [keys |-> {"lat", "lon"}, lat |-> <<"1">>, lon |-> <<"2">>]

\* response bodies: not JSON at all, JSON null, a JSON error object, or a
\* JSON array of zero, one or two elements
GeoBodies ==
    {[tag |-> t, items |-> <<>>] : t \in {"notjson", "null", "dict", "list"}}
    \cup {[tag |-> "list", items |-> <<e>>] : e \in GeoElems}
    \cup {[tag |-> "list", items |-> <<e, SecondElem>>] :
            e \in {x \in GeoElems : x.lat = <<"9","5">> /\ x.lon = <<>>}}

HttpStatuses == {200, 503}

NoBody == [tag |-> "none", items |-> <<>>]

\* what requests.get does: raise (network error, timeout) or return a
\* response with a status code and a body
GeoResponses ==
    {[kind |-> k, status |-> 0, body |-> NoBody] : k \in {"neterr", "timeout"}}
    \cup {[kind |-> "http", status |-> s, body |-> b] :
            s \in HttpStatuses, b \in GeoBodies}

NoResponse == [kind |-> "norequest", status |-> 0, body |-> NoBody]

-----------------------------------------------------------------------------
(* get_coordinates.                                                        *)

None == [tag |-> "None", lat |-> 0, lon |-> 0]
Coord(la, lo) == [tag |-> "coord", lat |-> la, lon |-> lo]

\* Mutation: latitude and longitude read from the wrong fields.
CoordinateOf_swapped(e) ==
    LET la == ParseFloat(e.lon)
        lo == ParseFloat(e.lat)
    IN  IF "lat" \notin e.keys \/ ~la.ok \/ "lon" \notin e.keys \/ ~lo.ok
        THEN None
        ELSE Coord(la.val, lo.val)

\* [float(data[0]["lat"]), float(data[0]["lon"])] inside the try block:
\* a KeyError or ValueError ends in "except: return None"
CoordinateOf(e) ==
    LET la == ParseFloat(e.lat)
        lo == ParseFloat(e.lon)
    IN  IF "lat" \notin e.keys \/ ~la.ok \/ "lon" \notin e.keys \/ ~lo.ok
        THEN None
        ELSE Coord(la.val, lo.val)

\* the try block of get_coordinates on the outcome of requests.get; the
\* status code is never read
ParseGeoResponse(resp) ==
    IF resp.kind # "http" THEN None
    ELSE IF resp.body.tag = "notjson" THEN None
    ELSE IF resp.body.tag = "null" THEN None
    ELSE IF resp.body.tag = "dict" THEN None
    ELSE IF resp.body.items = <<>> THEN None
    ELSE CoordinateOf(resp.body.items[1])

\* the body of get_coordinates: result, and whether requests.get was called
GetCoordinatesBody(address_string, resp) ==
    IF address_string = <<>>
    THEN [result |-> None, http |-> FALSE]
    ELSE [result |-> ParseGeoResponse(resp), http |-> TRUE]

Miss == [hit |-> FALSE, val |-> None]
EmptyCache == [a \in Addresses |-> Miss]

\* Mutation: only successful lookups are stored.
StoreResult_skipNone(c, a, r) ==
    IF r = None THEN c ELSE [c EXCEPT ![a] = [hit |-> TRUE, val |-> r]]

\* Mutation: every lookup is stored under one key.
StoreResult_oneKey(c, a, r) ==
    [b \in Addresses |-> [hit |-> TRUE, val |-> r]]

\* st.cache_data stores the returned value, None included, under the
\* argument
StoreResult(c, a, r) == [c EXCEPT ![a] = [hit |-> TRUE, val |-> r]]

\* @st.cache_data get_coordinates: a stored value is returned without
\* running the body
CachedGetCoordinates(c, a, resp) ==
    IF c[a].hit
    THEN [result |-> c[a].val, http |-> FALSE, cache |-> c]
    ELSE LET r == GetCoordinatesBody(a, resp)
         IN  [result |-> r.result, http |-> r.http,
              cache |-> StoreResult(c, a, r.result)]

\* what one call of the memoized function did
CallRecord(a, out, resp) ==
    [made |-> TRUE, addr |-> a, http |-> out.http, result |-> out.result,
     resp |-> IF out.http THEN resp ELSE NoResponse]

NoCall == [made |-> FALSE, addr |-> <<>>, http |-> FALSE, result |-> None,
           resp |-> NoResponse]

-----------------------------------------------------------------------------
(* The weather service (Open-Meteo) and the weather column.                *)

WeatherKeys == {"weathercode", "temperature", "windspeed"}

\* the value under "current_weather": absent, null, a string, or an object
\* holding some of the three keys
CurrentWeathers ==
    {[tag |-> t, keys |-> {}, code |-> 0] : t \in {"absent", "null", "str"}}
    \cup {[tag |-> "dict", keys |-> k, code |-> c] :
            k \in SUBSET WeatherKeys, c \in {0, 3}}

WeatherResponses ==
    {[kind |-> "neterr", body |-> "none", cw |-> [tag |-> "absent", keys |-> {}, code |-> 0]]}
    \cup {[kind |-> "http", body |-> b, cw |-> [tag |-> "absent", keys |-> {}, code |-> 0]] :
            b \in {"notjson", "list"}}
    \cup {[kind |-> "http", body |-> "dict", cw |-> w] : w \in CurrentWeathers}

WNone == [tag |-> "null", keys |-> {}, code |-> 0]

\* get_weather_data: r.json().get("current_weather", None), None on any
\* exception
GetWeatherData(resp) ==
    IF resp.kind # "http" THEN WNone
    ELSE IF resp.body # "dict" THEN WNone
    ELSE IF resp.cw.tag = "absent" THEN WNone
    ELSE resp.cw

\* Python truth value of the weather object
WeatherTruthy(w) ==
    \/ w.tag = "str"
    \/ w.tag = "dict" /\ w.keys # {}

\* the weather column: "raise" is an exception leaving the script
RenderWeather(w) ==
    IF ~WeatherTruthy(w) THEN "nodata"
    ELSE IF w.tag # "dict" THEN "raise"
    ELSE IF "weathercode" \notin w.keys THEN "raise"
    ELSE IF "temperature" \notin w.keys THEN "raise"
    ELSE IF "windspeed" \notin w.keys THEN "raise"
    ELSE IF w.code = 0 THEN "metric_sun" ELSE "metric_rain"

-----------------------------------------------------------------------------
(* The document search (Transparenzportal) and extract_docs.               *)

JAbsent == [tag |-> "absent", s |-> <<>>]
JNull   == [tag |-> "null", s |-> <<>>]
JStr(s) == [tag |-> "str", s |-> s]

LowerChar(c) ==
    CASE c = "P" -> "p" [] c = "D" -> "d" [] c = "F" -> "f"
      [] c = "H" -> "h" [] c = "T" -> "t" [] c = "M" -> "m" [] c = "L" -> "l"
      [] OTHER -> c

\* str.lower()
Lower(s) == [i \in 1..Len(s) |-> LowerChar(s[i])]

\* s[:n]
Prefix(s, n) == SubSeq(s, 1, IF Len(s) < n THEN Len(s) ELSE n)

FormatValues ==
    { JStr(<<"p","d","f">>), JStr(<<"P","D","F">>), JStr(<<"h","t","m","l">>),
      JNull, JAbsent }

\* a resource {format, url}
Resources ==
    {[format |-> f, url |-> JStr(<<u>>)] : f \in FormatValues, u \in {"a", "b"}}
    \cup {[format |-> JStr(<<"p","d","f">>), url |-> JAbsent]}

ResourceLists == UNION {[1..k -> Resources] : k \in 0..MaxResources}

ModifiedValues ==
    { JStr(<<"2","0","2","4","-","0","1","-","1","5","T","1","0",":","3","0">>),
      JNull, JAbsent }

\* one element of result.results
Item(mm, u, rl) ==
    [title |-> JStr(<<"Schulentwicklungsplan">>), metadata_modified |-> mm,
     url |-> u, resources |-> rl]

Items ==
    {Item(mm, u, [tag |-> "list", items |-> rl]) :
        mm \in ModifiedValues, u \in {JStr(<<"top">>), JAbsent},
        rl \in ResourceLists}
    \cup {Item(mm, JStr(<<"top">>), [tag |-> "absent", items |-> <<>>]) :
            mm \in ModifiedValues}

\* a well-formed document with a PDF resource
PlainItem ==
    Item(JStr(<<"2","0","2","3","-","1","2","-","0","1">>), JStr(<<"top">>),
         [tag |-> "list",
          items |-> <<[format |-> JStr(<<"P","D","F">>), url |-> JStr(<<"b">>)]>>])

\* results lists handed to extract_docs on its own
RawResults ==
    {<<>>} \cup {<<i>> : i \in Items} \cup {<<PlainItem, i>> : i \in Items}

\* dict.get(key): None when the key is absent
Get(v) == IF v.tag = "absent" THEN JNull ELSE v

\* dict.get(key, ""): the empty string when the key is absent
GetOrEmpty(v) == IF v.tag = "absent" THEN JStr(<<>>) ELSE v

\* the loop over res_list from position i on: raised stands for the
\* AttributeError of None.lower()
RECURSIVE PdfLoop(_, _, _)
PdfLoop(res_list, i, link) ==
    IF i > Len(res_list) THEN [raised |-> FALSE, link |-> link]
    ELSE LET fmt == GetOrEmpty(res_list[i].format)
         IN  IF fmt.tag = "null" THEN [raised |-> TRUE, link |-> link]
             ELSE IF Lower(fmt.s) = <<"p","d","f">>
                  THEN [raised |-> FALSE, link |-> Get(res_list[i].url)]
                  ELSE PdfLoop(res_list, i + 1, link)

\* one pass of the loop body of extract_docs: raised also stands for the
\* TypeError of None[:10]
ExtractItem(item) ==
    LET res_list == IF item.resources.tag = "absent" THEN <<>>
                    ELSE item.resources.items
        first == PdfLoop(res_list, 1, GetOrEmpty(item.url))
        mm    == GetOrEmpty(item.metadata_modified)
    IN  IF first.raised \/ mm.tag = "null"
        THEN [raised |-> TRUE,
              rec |-> [Dokument |-> JNull, Datum |-> <<>>, Link |-> JNull]]
        ELSE [raised |-> FALSE,
              rec |-> [Dokument |-> Get(item.title), Datum |-> Prefix(mm.s, 10),
                       Link |-> first.link]]

RECURSIVE ExtractFrom(_, _, _)
ExtractFrom(results, i, cleaned) ==
    IF i > Len(results) THEN [raised |-> FALSE, val |-> cleaned]
    ELSE LET r == ExtractItem(results[i])
         IN  IF r.raised THEN [raised |-> TRUE, val |-> <<>>]
             ELSE ExtractFrom(results, i + 1, Append(cleaned, r.rec))

\* extract_docs(results)
ExtractDocs(results) == ExtractFrom(results, 1, <<>>)

\* result lists the upstream search returns
UpstreamResults ==
    { <<>>, <<PlainItem>>, <<PlainItem, PlainItem>>,
      <<Item(JNull, JStr(<<"top">>), [tag |-> "list", items |-> <<>>])>>,
      <<Item(JAbsent, JAbsent,
             [tag |-> "list",
              items |-> <<[format |-> JNull, url |-> JStr(<<"a">>)]>>])>>,
      <<Item(JAbsent, JStr(<<"top">>),
             [tag |-> "list",
              items |-> <<[format |-> JStr(<<"h","t","m","l">>), url |-> JStr(<<"a">>)]>>])>> }

SuccessValues == {"absent", "null", "false", "true"}

\* what requests.get and response.json() give the search client: a network
\* error, a body that is not JSON, a JSON array, or the JSON envelope with
\* or without its success, result and results members
SearchResponses ==
    {[kind |-> k, success |-> "absent", hasResult |-> FALSE, hasResults |-> FALSE,
      results |-> <<>>] : k \in {"neterr", "notjson", "list"}}
    \cup {[kind |-> "dict", success |-> sv, hasResult |-> TRUE, hasResults |-> TRUE,
            results |-> r] : sv \in SuccessValues, r \in UpstreamResults}
    \cup {[kind |-> "dict", success |-> "true", hasResult |-> hr, hasResults |-> FALSE,
            results |-> <<>>] : hr \in BOOLEAN}

\* Mutation: the success flag is not read.
EnvelopeResults_noFlag(data) ==
    IF ~data.hasResult \/ ~data.hasResults
    THEN [raised |-> FALSE, val |-> <<>>]
    ELSE [raised |-> FALSE, val |-> data.results]

\* data["result"]["results"] if data.get("success") else [], inside the
\* try block: a KeyError ends in "except: return []"
EnvelopeResults(data) ==
    IF data.success # "true" THEN [raised |-> FALSE, val |-> <<>>]
    ELSE IF ~data.hasResult \/ ~data.hasResults
         THEN [raised |-> FALSE, val |-> <<>>]
         ELSE [raised |-> FALSE, val |-> data.results]

\* query_transparenzportal(search_term, limit): the request parameters
\* reach only the upstream; every exception is caught
QueryTransparenzportal(search_term, limit, resp) ==
    IF resp.kind # "dict" THEN [raised |-> FALSE, val |-> <<>>]
    ELSE EnvelopeResults(resp)

-----------------------------------------------------------------------------
(* The geo-feature locator (specification section 4.2).                    *)

\* number of (protocol-version, axis-order) strategies in the priority list
NumStrategies == 3

StrategyOrder == 1..NumStrategies

\* what the upstream answers to one strategy: a transport error, a body
\* that is not valid geodata, or a feature collection of n features
Answers ==
    {[kind |-> k, n |-> 0] : k \in {"transport", "invalid"}}
    \cup {[kind |-> "features", n |-> n] : n \in {0, 2, 5}}

Fixtures == [StrategyOrder -> Answers]

\* the features strategy i returns under fixture fx
FeaturesOf(fx, i) == {<<i, k>> : k \in 1..fx[i].n}

\* Mutation: a valid but empty feature collection is accepted.
AcceptAnswer_anyValid(ans) == ans.kind = "features"

\* a response is accepted when it parses as valid structured geodata and
\* contains at least one feature
AcceptAnswer(ans) == ans.kind = "features" /\ ans.n >= 1

FFIdle == [state |-> "idle", kind |-> "none", features |-> {}]

\* the outcome once every strategy was tried without success
Exhausted(fx) ==
    IF \A i \in StrategyOrder : fx[i].kind = "transport"
    THEN [state |-> "done", kind |-> "TransportError", features |-> {}]
    ELSE [state |-> "done", kind |-> "Empty", features |-> {}]

-----------------------------------------------------------------------------
(* The page run.                                                           *)

FallbackLat == 53550
FallbackLon == 9992

\* Mutation: the warning is left out.
MainCoords_silent(r) ==
    IF r = None THEN [coords |-> Coord(FallbackLat, FallbackLon), warned |-> FALSE]
    ELSE [coords |-> r, warned |-> FALSE]

\* if not coords: coords = [53.550, 9.992]; st.warning(...)
MainCoords(r) ==
    IF r = None THEN [coords |-> Coord(FallbackLat, FallbackLon), warned |-> TRUE]
    ELSE [coords |-> r, warned |-> FALSE]

\* limit=5 of query_transparenzportal
SearchLimit == 5

\* the Query of the three scenarios of the documents tab
Scenarios(s) ==
    << <<"Schulentwicklungsplan \"", s.bezirk, "\"">>,
       <<"\"", s.name, "\" OR \"", s.id, "\"", " Neubau OR Sanierung">>,
       <<"Bebauungsplan \"", s.stadtteil, "\"">> >>

NoTable == [kind |-> "none", rows |-> <<>>]

\* one expander: the table of extract_docs(raw) if raw, else the caption
\* "Nichts gefunden."; an exception of extract_docs leaves the script
RenderScenario(raw) ==
    IF raw = <<>> THEN [kind |-> "caption", rows |-> <<>>]
    ELSE LET e == ExtractDocs(raw)
         IN  IF e.raised THEN [kind |-> "raise", rows |-> <<>>]
             ELSE [kind |-> "table", rows |-> e.val]

NoSearchResponse ==
    [kind |-> "none", success |-> "absent", hasResult |-> FALSE,
     hasResults |-> FALSE, results |-> <<>>]

SearchIdle ==
    [done |-> FALSE, q |-> <<>>, resp |-> NoSearchResponse, raised |-> FALSE,
     val |-> <<>>]
ExtractIdle == [done |-> FALSE, raised |-> FALSE, val |-> <<>>]

InitCommon ==
    /\ cache = EmptyCache
    /\ lastCall = NoCall
    /\ log = <<>>
    /\ pc = "main"
    /\ schule = DefaultSchule
    /\ coords = None
    /\ warned = FALSE
    /\ weather = "idle"
    /\ scenario = 1
    /\ table = NoTable
    /\ searchOut = SearchIdle
    /\ extractOut = ExtractIdle
    /\ ffFixture = [i \in StrategyOrder |-> [kind |-> "invalid", n |-> 0]]
    /\ ffIdx = 1
    /\ ffAttempted = {}
    /\ ffResult = FFIdle

Init == InitCommon /\ docInput = <<>>

\* a rerun of the script from its top with school s selected
StartRun(s) ==
    /\ schule' = s
    /\ pc' = "main"
    /\ coords' = None
    /\ warned' = FALSE
    /\ weather' = "idle"
    /\ scenario' = 1
    /\ table' = NoTable

\* the user changes the sidebar selection (or touches any other widget):
\* the script is run again
SelectSchule(s) ==
    /\ StartRun(s)
    /\ UNCHANGED <<geoVars, docVars, ffVars>>

\* the Reset button: st.cache_data.clear(); st.rerun()
Reset ==
    /\ cache' = EmptyCache
    /\ StartRun(schule)
    /\ UNCHANGED <<lastCall, log, docVars, ffVars>>

\* section 6 up to the tabs: adresse, get_coordinates, the fallback. The
\* header metrics and the two map tabs that follow read coords and keep
\* no state.
Main(resp) ==
    /\ pc = "main"
    /\ LET adresse == schule.address
           out == CachedGetCoordinates(cache, adresse, resp)
           m == MainCoords(out.result)
       IN  /\ cache' = out.cache
           /\ lastCall' = CallRecord(adresse, out, NoResponse)
           /\ coords' = m.coords
           /\ warned' = m.warned
    /\ pc' = "weather"
    /\ UNCHANGED <<log, schule, weather, scenario, table, docVars, ffVars>>

\* tab 3: get_weather_data and the weather column
Weather(resp) ==
    /\ pc = "weather"
    /\ weather' = RenderWeather(GetWeatherData(resp))
    /\ pc' = IF weather' = "raise" THEN "error" ELSE "docs"
    /\ UNCHANGED <<geoVars, schule, coords, warned, scenario, table, docVars, ffVars>>

\* tab 4: one pass of the loop over the scenarios
Docs(resp) ==
    /\ pc = "docs"
    /\ LET q == Scenarios(schule)[scenario]
           raw == QueryTransparenzportal(q, SearchLimit, resp).val
       IN  table' = RenderScenario(raw)
    /\ pc' = IF table'.kind = "raise" THEN "error"
             ELSE IF scenario = 3 THEN "done" ELSE "docs"
    /\ scenario' = IF table'.kind # "raise" /\ scenario < 3
                   THEN scenario + 1 ELSE scenario
    /\ UNCHANGED <<geoVars, schule, coords, warned, weather, docVars, ffVars>>

Next ==
    \/ \E s \in SCHUL_DATEN : SelectSchule(s)
    \/ Reset
    \/ \E resp \in GeoResponses : Main(resp)
    \/ \E resp \in WeatherResponses : Weather(resp)
    \/ \E resp \in SearchResponses : Docs(resp)

\* the page: runs of the script between user interactions
Spec == Init /\ [][Next]_vars

-----------------------------------------------------------------------------
(* get_coordinates called on its own.                                      *)

\* one call get_coordinates(a) answered, if a request is made, by resp
GetCoordinates(a, resp) ==
    /\ Len(log) < MaxCalls
    /\ LET out == CachedGetCoordinates(cache, a, resp)
       IN  /\ cache' = out.cache
           /\ lastCall' = CallRecord(a, out, resp)
           /\ log' = Append(log, [addr |-> a, http |-> out.http,
                                  result |-> out.result])
    /\ UNCHANGED <<pageVars, docVars, ffVars>>

\* st.cache_data.clear()
ClearCache ==
    /\ cache' = EmptyCache
    /\ log' = <<>>
    /\ UNCHANGED <<lastCall, pageVars, docVars, ffVars>>

NextGeo ==
    \/ \E a \in TestAddresses, resp \in GeoResponses : GetCoordinates(a, resp)
    \/ ClearCache

SpecGeo == Init /\ [][NextGeo]_vars

-----------------------------------------------------------------------------
(* The document helpers called on their own.                               *)

\* search terms: the empty string and the three scenarios of the first
\* school
Queries ==
    {<<>>} \cup {Scenarios(DefaultSchule)[i] : i \in 1..3}

\* one call query_transparenzportal(q) answered by resp
Search(q, resp) ==
    /\ LET r == QueryTransparenzportal(q, SearchLimit, resp)
       IN  searchOut' = [done |-> TRUE, q |-> q, resp |-> resp,
                         raised |-> r.raised, val |-> r.val]
    /\ UNCHANGED <<geoVars, pageVars, docInput, extractOut, ffVars>>

NextSearch == \E q \in Queries, resp \in SearchResponses : Search(q, resp)

SpecSearch == Init /\ [][NextSearch]_vars

\* the results list is drawn at the start
InitExtract == InitCommon /\ docInput \in RawResults

\* one call extract_docs(docInput)
Extract ==
    /\ ~extractOut.done
    /\ LET e == ExtractDocs(docInput)
       IN  extractOut' = [done |-> TRUE, raised |-> e.raised, val |-> e.val]
    /\ UNCHANGED <<geoVars, pageVars, docInput, searchOut, ffVars>>

NextExtract == Extract

SpecExtract == InitExtract /\ [][NextExtract]_vars

-----------------------------------------------------------------------------
(* findFeatures as a run of the strategy list.                             *)

\* findFeatures is called against an upstream behaving as fx
FFStart(fx) ==
    /\ ffResult.state # "running"
    /\ ffFixture' = fx
    /\ ffIdx' = 1
    /\ ffAttempted' = {}
    /\ ffResult' = [state |-> "running", kind |-> "none", features |-> {}]
    /\ UNCHANGED <<geoVars, pageVars, docVars>>

\* the next strategy in priority order is attempted: the first accepted
\* answer is the result; after the last strategy the run ends without one
FFAttempt ==
    /\ ffResult.state = "running"
    /\ ffAttempted' = ffAttempted \cup {ffIdx}
    /\ IF AcceptAnswer(ffFixture[ffIdx])
       THEN /\ ffResult' = [state |-> "done", kind |-> "features",
                            features |-> FeaturesOf(ffFixture, ffIdx)]
            /\ ffIdx' = ffIdx
       ELSE IF ffIdx = NumStrategies
            THEN /\ ffResult' = Exhausted(ffFixture)
                 /\ ffIdx' = ffIdx
            ELSE /\ ffResult' = ffResult
                 /\ ffIdx' = ffIdx + 1
    /\ UNCHANGED <<ffFixture, geoVars, pageVars, docVars>>

NextFF ==
    \/ \E fx \in Fixtures : FFStart(fx)
    \/ FFAttempt

SpecFF == Init /\ [][NextFF]_vars

-----------------------------------------------------------------------------
(* Properties.                                                             *)

\* C1: for every address that is empty or consists only of whitespace,
\* get_coordinates returns None and issues no HTTP request.
C1_BlankAddressNoRequest ==
    (lastCall.made /\ IsBlank(lastCall.addr))
        => (lastCall.result = None /\ ~lastCall.http)

\* the geocoding step of the current run is over
AfterGeocoding == pc \in {"weather", "docs", "done", "error"}

Fallback == Coord(FallbackLat, FallbackLon)

\* C2: after the geocoding step of a page run a coordinate pair is always
\* available; on failure it is the fallback point and the warning is
\* shown, and the warning is shown only on failure.
C2_FallbackIffWarned ==
    AfterGeocoding =>
        /\ coords.tag = "coord"
        /\ lastCall.made /\ lastCall.addr = schule.address
        /\ (lastCall.result = None) => (coords = Fallback /\ warned)
        /\ (lastCall.result # None) => (coords = lastCall.result /\ ~warned)

\* C2 witness: a run whose geocoding failed shows the fallback and the
\* warning.
C2_Witness ==
    /\ AfterGeocoding
    /\ lastCall.result = None
    /\ coords = Fallback
    /\ warned

\* the outcomes of the request the claim counts as failures: a network
\* error, a timeout, a non-2xx response, an empty result list
FailureOutcome(resp) ==
    \/ resp.kind \in {"neterr", "timeout"}
    \/ resp.kind = "http" /\ resp.status \notin 200..299
    \/ resp.kind = "http" /\ resp.body.tag = "list" /\ resp.body.items = <<>>

\* C3: whenever the HTTP request ends in a network error, a timeout, a
\* non-2xx response or an empty result list, get_coordinates returns None.
C3_FailuresCollapse ==
    (lastCall.made /\ lastCall.http /\ FailureOutcome(lastCall.resp))
        => lastCall.result = None

\* number of HTTP requests the calls in the log issued for address a
RequestsFor(a) ==
    Cardinality({k \in 1..Len(log) : log[k].addr = a /\ log[k].http})

\* C4 as stated: between two cache clears, two calls with the same address
\* issue exactly one HTTP request and return the same result.
C4_ExactlyOneRequest ==
    \A i, j \in 1..Len(log) :
        (i < j /\ log[i].addr = log[j].addr)
            => /\ RequestsFor(log[i].addr) = 1
               /\ log[j].result = log[i].result

\* C4 amended: between two cache clears, two calls with the same address
\* issue exactly one HTTP request when the address is not the empty
\* string and none when it is, and return the same result.
C4_OneRequestUnlessEmpty ==
    \A i, j \in 1..Len(log) :
        (i < j /\ log[i].addr = log[j].addr)
            => /\ RequestsFor(log[i].addr) = IF log[i].addr = <<>> THEN 0 ELSE 1
               /\ log[j].result = log[i].result

\* C4 witness: a resolved address looked up a second time, without a
\* second request.
C4_Witness ==
    \E i, j \in 1..Len(log) :
        /\ i < j /\ log[i].addr = log[j].addr
        /\ log[i].http /\ ~log[j].http
        /\ log[i].result.tag = "coord"
        /\ log[j].result = log[i].result

\* the failure classes of the search: a network error, an unparsable
\* body, a success flag that is false or absent
SearchFailure(resp) ==
    \/ resp.kind \in {"neterr", "notjson"}
    \/ resp.kind = "dict" /\ resp.success \in {"false", "absent"}

EmptySuccess(resp) ==
    /\ resp.kind = "dict" /\ resp.success = "true"
    /\ resp.hasResult /\ resp.hasResults /\ resp.results = <<>>

\* C5: query_transparenzportal never raises; a network error, an
\* unparsable response, a false or absent success flag, and a successful
\* response with no results all yield the empty sequence.
C5_SearchNeverRaises ==
    searchOut.done =>
        /\ ~searchOut.raised
        /\ SearchFailure(searchOut.resp) => searchOut.val = <<>>
        /\ EmptySuccess(searchOut.resp) => searchOut.val = <<>>

\* C5 witness: the empty query answered {success: true, result:
\* {results: []}}, and one answered with success false and results.
C5_Witness ==
    /\ searchOut.done /\ searchOut.val = <<>>
    /\ \/ searchOut.q = <<>> /\ EmptySuccess(searchOut.resp)
       \/ searchOut.resp.success = "false" /\ searchOut.resp.results # <<>>

\* the format is "pdf" ignoring case
IsPdfFormat(f) ==
    /\ f.tag = "str" /\ Len(f.s) = 3
    /\ f.s[1] \in {"p", "P"} /\ f.s[2] \in {"d", "D"} /\ f.s[3] \in {"f", "F"}

\* the link the claim names for one raw document result
ExpectedLink(item) ==
    LET rl == item.resources.items
        pdfs == {k \in 1..Len(rl) : IsPdfFormat(rl[k].format)}
    IN  IF pdfs = {}
        THEN IF item.url.tag = "absent" THEN JStr(<<>>) ELSE item.url
        ELSE LET k == CHOOSE x \in pdfs : \A y \in pdfs : x <= y
             IN  IF rl[k].url.tag = "absent" THEN JNull ELSE rl[k].url

\* C6: for every raw document result extract_docs sets the record's link
\* to the url of the first resource whose format is "pdf" ignoring case
\* and, when there is none, to the result's top-level url.
C6_FirstPdfLink ==
    extractOut.done =>
        /\ ~extractOut.raised
        /\ Len(extractOut.val) = Len(docInput)
        /\ \A i \in 1..Len(docInput) :
              extractOut.val[i].Link = ExpectedLink(docInput[i])

\* C7: no page run ends in an unhandled error, whatever the external
\* services return.
C7_NoUnhandledError == pc # "error"

\* latitude and longitude strings of the fixture that denote a valid
\* latitude and a valid longitude
ValidLatStrings == { <<"5","3",".","5","5">>, <<"-","9","0">> }
ValidLonStrings == { <<"9",".","9","9","2">>, <<"-","1","2","0",".","5">> }

\* the service resolved the address: a 2xx response whose JSON array
\* starts with an element holding a valid latitude and longitude
Resolved(resp) ==
    /\ resp.kind = "http" /\ resp.status \in 200..299
    /\ resp.body.tag = "list" /\ resp.body.items # <<>>
    /\ resp.body.items[1].keys = {"lat", "lon"}
    /\ resp.body.items[1].lat \in ValidLatStrings
    /\ resp.body.items[1].lon \in ValidLonStrings

Successful(fx) == {i \in StrategyOrder : fx[i].kind = "features" /\ fx[i].n >= 1}

\* C9: findFeatures tries its strategies in priority order and returns
\* exactly the features of the first strategy whose response is valid and
\* non-empty; later strategies are not attempted and nothing is merged.
C9_FirstSuccessWins ==
    /\ ffResult.state = "running" =>
          /\ ffAttempted = 1..(ffIdx - 1)
          /\ \A i \in ffAttempted : i \notin Successful(ffFixture)
    /\ ffResult.state = "done" =>
          IF Successful(ffFixture) = {}
          THEN /\ ffResult.kind \in {"Empty", "TransportError"}
               /\ ffResult.features = {}
               /\ ffAttempted = StrategyOrder
          ELSE LET first == CHOOSE i \in Successful(ffFixture) :
                                \A j \in Successful(ffFixture) : i <= j
               IN  /\ ffResult.kind = "features"
                   /\ ffResult.features = FeaturesOf(ffFixture, first)
                   /\ ffAttempted = 1..first

\* C9 witness: the first strategy yields 2 features, the second would
\* yield 5; the result holds 2 and the second was never attempted.
C9_Witness ==
    /\ ffResult.state = "done"
    /\ ffFixture[1] = [kind |-> "features", n |-> 2]
    /\ ffFixture[2] = [kind |-> "features", n |-> 5]
    /\ Cardinality(ffResult.features) = 2
    /\ ffAttempted = {1}

\* a step of the geocoding section of the script
MainStep == pc = "main" /\ pc' = "weather"

Failed == [hit |-> TRUE, val |-> None]

\* C10: a failed resolution is memoized like a successful one: it stays in
\* the cache until Reset clears it, later runs for the address get it
\* without a new HTTP request and show the fallback, and the first run
\* after Reset issues a fresh request.
C10_FailureMemoized ==
    [][ /\ (MainStep /\ lastCall'.result = None)
            => cache'[schule.address] = Failed
        /\ \A a \in Addresses :
            (cache[a] = Failed /\ ~Reset) => cache'[a] = Failed
        /\ (MainStep /\ cache[schule.address] = Failed)
            => /\ ~lastCall'.http /\ lastCall'.result = None
               /\ coords' = Fallback /\ warned'
        /\ Reset => cache' = EmptyCache
        /\ (MainStep /\ ~cache[schule.address].hit) => lastCall'.http
      ]_vars

\* C10 witness: a run served the memoized failure: no request, the
\* fallback coordinate, the warning.
C10_Witness ==
    /\ pc = "weather"
    /\ lastCall.made /\ ~lastCall.http /\ lastCall.result = None
    /\ cache[schule.address] = Failed
    /\ coords = Fallback /\ warned

====
